---- MODULE Spec2Model ----
(***************************************************************************)
(* AI Council Chamber agent API server (agent-api-server/api_server.py):   *)
(* the in-memory session store, the HTTP handlers that create and read     *)
(* sessions, and the background thread run_deliberation that drives one    *)
(* session through opening, contributions and synthesis.                   *)
(*                                                                         *)
(* Handlers and worker threads run concurrently (threading.Thread, Flask's *)
(* threaded server) and share the dict `sessions` without any lock, so     *)
(* every read or write of a session field is a step of its own wherever    *)
(* another thread can observe the difference.                              *)
(*                                                                         *)
(* The client library (ai-council-client.py) is modelled on its own, with  *)
(* the server as its environment (ClientSpec), and against the handlers    *)
(* and worker threads of this server (SystemSpec).                         *)
(*                                                                         *)
(* Not modelled: timestamps (createdAt, timestamp), GET /health.  Session   *)
(* identifiers are opaque tokens of which only equality is used: uuid4 is  *)
(* modelled as producing the next identifier never produced before.        *)
(***************************************************************************)
EXTENDS Integers, Sequences, FiniteSets, TLC

\* Bound: how many sessions are created in one run of the server.
MaxSessions == 2
\* Bound: how many sessions are created in a run in which clients also read.
MaxObserved == 1

(***************************************************************************)
(* JSON / Python values.                                                   *)
(***************************************************************************)
JNull == [t |-> "null"]
JStr(s) == [t |-> "str", v |-> s]
JList(q) == [t |-> "list", v |-> q]
\* A JSON object / Python dict: a function from the keys present.
JDict(d) == [t |-> "dict", v |-> d]

\* A faulty variant of Truthy: only None is false (`if topic is None`).
Truthy_NullOnly(x) == x.t # "null"

\* Python truthiness, as used by `if not topic` and `if not session`.
Truthy(x) ==
    CASE x.t = "null" -> FALSE
      [] x.t = "str" -> x.v # ""
      [] x.t = "list" -> x.v # <<>>
      [] x.t = "dict" -> DOMAIN x.v # {}
      [] OTHER -> TRUE

\* dict.get(key, default) on a request body (a function from the keys present).
DictGet(d, key, default) == IF key \in DOMAIN d THEN d[key] ELSE default

\* `for councilor in councilors` raises TypeError unless the value is iterable.
Iterable(x) == x.t = "list"

\* A faulty variant of Hashable: the registry is indexed, so a key it
\* does not hold raises as well (KeyError).
Hashable_Registered(x) ==
    x.t = "str" /\ x.v \in {"speaker", "technocrat", "ethicist", "pragmatist",
                            "visionary", "skeptic", "sentinel", "moderator",
                            "historian", "diplomat", "journalist", "psychologist"}

\* COUNCILOR_PERSONAS.get(councilor, ...) raises TypeError on an unhashable key.
Hashable(x) == x.t # "list"

(***************************************************************************)
(* Configuration.                                                          *)
(***************************************************************************)
COUNCILOR_PERSONAS ==
    [ speaker      |-> "You are the Speaker",
      technocrat   |-> "You are the Technocrat",
      ethicist     |-> "You are the Ethicist",
      pragmatist   |-> "You are the Pragmatist",
      visionary    |-> "You are the Visionary",
      skeptic      |-> "You are the Skeptic",
      sentinel     |-> "You are the Sentinel",
      moderator    |-> "You are the Moderator",
      historian    |-> "You are the Historian",
      diplomat     |-> "You are the Diplomat",
      journalist   |-> "You are the Journalist",
      psychologist |-> "You are the Psychologist" ]

\* COUNCILOR_PERSONAS.get(councilor, COUNCILOR_PERSONAS["speaker"])
PersonaGet(councilor) ==
    IF councilor.t = "str" /\ councilor.v \in DOMAIN COUNCILOR_PERSONAS
    THEN COUNCILOR_PERSONAS[councilor.v]
    ELSE COUNCILOR_PERSONAS["speaker"]

\* create_session's defaults for an absent "mode" / "councilors" key.
DefaultMode == JStr("legislative")
DefaultCouncilors ==
    JList(<< JStr("speaker"), JStr("technocrat"), JStr("ethicist"),
             JStr("pragmatist"), JStr("skeptic") >>)

(***************************************************************************)
(* The inference gateway.  What the HTTP call to LM Studio does is outside *)
(* the program: an outcome is either a completion text or an exception.    *)
(***************************************************************************)
GatewayOutcomes ==
    { [ok |-> TRUE,  text |-> "reply"],
      [ok |-> FALSE, text |-> "timeout"] }

ErrorMarker(e) == "[Error querying LM Studio: " \o e \o "]"

\* A faulty variant of query_lmstudio: a failure is swallowed into an empty completion.
query_lmstudio_Empty(prompt, outcome) ==
    IF outcome.ok THEN outcome.text ELSE ""

\* query_lmstudio: the completion, or the error marker built from the exception.
query_lmstudio(prompt, outcome) ==
    IF outcome.ok THEN outcome.text ELSE ErrorMarker(outcome.text)

IsErrorMarker(text) == \E o \in GatewayOutcomes : ~o.ok /\ text = ErrorMarker(o.text)

(***************************************************************************)
(* Inputs.                                                                 *)
(***************************************************************************)
\* A faulty variant of uuid4: the same identifier for every session.
uuid4_Fixed(store) == 1

\* str(uuid.uuid4()): a fresh identifier (collisions are not modelled).
uuid4(store) == Cardinality(DOMAIN store) + 1

\* The identifiers a client asks for: those uuid4 can produce within the
\* bounds, and 0, which it never produces ("nonexistent").
RequestIds == 0 .. MaxSessions

Topic == JStr("topic")

\* The "councilors" values of the request bodies tried.
\* [] ; ["technocrat", "speaker", "oracle"] (a registered persona, the speaker,
\* an unregistered one) ; [[]] (an unhashable entry) ; null (not iterable).
CouncilorInputs ==
    { JList(<<>>),
      JList(<< JStr("technocrat"), JStr("speaker"), JStr("oracle") >>),
      JList(<< JList(<<>>) >>),
      JNull }

\* Request bodies (JSON objects): with a topic, and with a missing, null or
\* empty topic.  A body with a topic always names its councilors: the default
\* list takes the same path through the loop as the three-entry list.
Bodies ==
    { [topic |-> Topic, councilors |-> c] : c \in CouncilorInputs }
      \cup { [mode |-> JStr("deliberation")],
             [topic |-> JStr("")],
             [topic |-> JNull, councilors |-> JNull] }

(***************************************************************************)
(* State.                                                                  *)
(***************************************************************************)
VARIABLES
    sessions,   \* the dict `sessions`: session id -> session
    threads,    \* the threads started by create_session, in start order, each
                \* with its locals and (outcomes) the gateway outcomes it has met
    req,        \* the HTTP request being handled, with the handler's locals
    hist,       \* history: per session, the summaries the store has held
    client      \* an AICouncilClient and the call it is executing

vars == << sessions, threads, req, hist, client >>

Idle == [op |-> "idle", pc |-> "idle", topic |-> JNull, sid |-> 0, code |-> 0,
         status |-> "", messageCount |-> 0, consensus |-> JNull, messages |-> <<>>,
         answer |-> ""]

\* (status, messageCount, consensus) of a stored session.
Summary(s) == [status |-> s.status, messageCount |-> Len(s.messages),
               consensus |-> s.consensus]

Record(store) ==
    [id \in DOMAIN store |->
        (IF id \in DOMAIN hist THEN hist[id] ELSE {}) \cup {Summary(store[id])}]

\* An AICouncilClient that is executing no call.  self_session_id is the
\* attribute self.session_id (line 25), which outlives the calls; the other
\* fields are the locals of the call in progress, and below the line what the
\* call has done so far: whether it polled, the statuses its polls observed,
\* whether a poll failed, whether it slept, the sleeps since the last poll,
\* the kinds of HTTP request it issued, in order, without repetitions, and
\* (over all the calls made) the sessions for which a wait has returned True.
NoCall ==
    [op |-> "idle", pc |-> "idle", self_session_id |-> JNull,
     session_id |-> JNull, timeout |-> 0, poll_interval |-> 0, elapsed |-> 0,
     data |-> JNull, status |-> JNull, waited |-> FALSE,
     messages |-> JNull, result |-> JNull,
     \* ----
     polled |-> FALSE, observed |-> {}, fetchFailed |-> FALSE, slept |-> FALSE,
     sleepsSincePoll |-> 0, calls |-> <<>>, completedSeen |-> {}]

Init ==
    /\ sessions = << >>
    /\ threads = << >>
    /\ req = Idle
    /\ hist = << >>
    /\ client = NoCall

(***************************************************************************)
(* POST /api/session and POST /api/deliberate.                             *)
(***************************************************************************)
NewSession(session_id, mode, topic, councilors) ==
    [sessionId |-> session_id, mode |-> mode, topic |-> topic,
     councilors |-> councilors, status |-> "created", messages |-> <<>>,
     consensus |-> JNull]

NewThread(session_id) ==
    [sid |-> session_id, pc |-> "start", topic |-> JNull, councilors |-> JNull,
     opening |-> "", i |-> 0, synthesis |-> "", prompt |-> <<>>, outcomes |-> <<>>]

create_session(body) ==
    /\ req.op = "idle"
    /\ UNCHANGED client
    /\ LET topic == DictGet(body, "topic", JNull)
           mode == DictGet(body, "mode", DefaultMode)
           councilors == DictGet(body, "councilors", DefaultCouncilors)
       IN  IF ~Truthy(topic)
           THEN /\ req' = [Idle EXCEPT !.op = "create", !.pc = "respond",
                                       !.topic = topic, !.code = 400]
                /\ UNCHANGED << sessions, threads, hist, client >>
           ELSE LET session_id == uuid4(sessions) IN
                      /\ sessions' = [id \in DOMAIN sessions \cup {session_id} |->
                                        IF id = session_id
                                        THEN NewSession(session_id, mode, topic, councilors)
                                        ELSE sessions[id]]
                      /\ threads' = Append(threads, NewThread(session_id))
                      /\ req' = [Idle EXCEPT !.op = "create", !.pc = "respond",
                                             !.topic = topic, !.code = 200, !.sid = session_id,
                                             !.status = "running"]
                      /\ hist' = Record(sessions')

deliberate(body) == create_session(body)

(***************************************************************************)
(* run_deliberation: the background thread of one session.                 *)
(***************************************************************************)
Message(councilor, role, content) ==
    [councilor |-> councilor, role |-> role, content |-> content]

\* A faulty variant of AppendMessage: one list of messages is shared by all
\* the sessions.
AppendMessage_Shared(store, sid, m) ==
    [id \in DOMAIN store |-> [store[id] EXCEPT !.messages = Append(@, m)]]

\* A faulty variant of AppendMessage: the message is put in front.
AppendMessage_Prepend(store, sid, m) ==
    [store EXCEPT ![sid].messages = << m >> \o @]

\* session["messages"].append(m) on the stored session.
AppendMessage(store, sid, m) ==
    [store EXCEPT ![sid].messages = Append(@, m)]

OpeningPrompt(topic) ==
    [kind |-> "opening", persona |-> COUNCILOR_PERSONAS["speaker"],
     topic |-> topic, opening |-> "", contributions |-> <<>>]

ContributionPrompt(persona, topic, opening) ==
    [kind |-> "contribution", persona |-> persona,
     topic |-> topic, opening |-> opening, contributions |-> <<>>]

\* "\n\n".join(f"{m['councilor']}: {m['content']}" ... if m["role"] == "contribution")
Contributions(messages) ==
    LET Sel(m) == m.role = "contribution"
        picked == SelectSeq(messages, Sel)
    IN  [k \in 1 .. Len(picked) |-> << picked[k].councilor, picked[k].content >>]

SynthesisPrompt(topic, opening, contributions) ==
    [kind |-> "synthesis", persona |-> COUNCILOR_PERSONAS["speaker"],
     topic |-> topic, opening |-> opening, contributions |-> contributions]

\* A faulty variant of IsSpeaker: the speaker is not skipped.
IsSpeaker_Never(councilor) == FALSE

\* Line 88: councilor == "speaker"
IsSpeaker(councilor) == councilor = JStr("speaker")

\* A faulty variant of Start: the status is left as it is.
Start_NoRunning(w) ==
    /\ threads[w].pc = "start"
    /\ threads[w].sid \in DOMAIN sessions
    /\ threads' = [threads EXCEPT ![w].pc = "opening",
                                  ![w].topic = sessions[threads[w].sid].topic,
                                  ![w].councilors = sessions[threads[w].sid].councilors]
    /\ UNCHANGED << sessions, hist, req, client >>

\* Lines 63-69: look the session up, mark it running, read topic and councilors.
Start(w) ==
    /\ threads[w].pc = "start"
    /\ LET sid == threads[w].sid IN
       IF sid \notin DOMAIN sessions
       THEN /\ threads' = [threads EXCEPT ![w].pc = "returned"]
            /\ UNCHANGED << sessions, hist >>
       ELSE /\ sessions' = [sessions EXCEPT ![sid].status = "running"]
            /\ threads' = [threads EXCEPT ![w].pc = "opening",
                                          ![w].topic = sessions[sid].topic,
                                          ![w].councilors = sessions[sid].councilors]
            /\ hist' = Record(sessions')
    /\ UNCHANGED << req, client >>

\* A faulty variant of Opening: the session is marked completed as soon as
\* the opening is in.
Opening_MarksCompleted(w, outcome) ==
    /\ threads[w].pc = "opening"
    /\ LET sid == threads[w].sid
           opening_prompt == OpeningPrompt(threads[w].topic)
           opening == query_lmstudio(opening_prompt, outcome)
       IN  /\ sessions' = [AppendMessage(sessions, sid,
                               Message(JStr("speaker"), "opening", opening))
                             EXCEPT ![sid].status = "completed"]
           /\ threads' = [threads EXCEPT ![w].pc = "loop", ![w].i = 1,
                                         ![w].opening = opening,
                                         ![w].prompt = opening_prompt,
                                         ![w].outcomes = Append(@, outcome)]
           /\ hist' = Record(sessions')
    /\ UNCHANGED << req, client >>

\* Lines 71-84: the Speaker's opening statement.
Opening(w, outcome) ==
    /\ threads[w].pc = "opening"
    /\ LET sid == threads[w].sid
           opening_prompt == OpeningPrompt(threads[w].topic)
           opening == query_lmstudio(opening_prompt, outcome)
       IN  /\ sessions' = AppendMessage(sessions, sid,
                              Message(JStr("speaker"), "opening", opening))
           /\ threads' = [threads EXCEPT ![w].pc = "loop", ![w].i = 1,
                                         ![w].opening = opening,
                                         ![w].prompt = opening_prompt,
                                         ![w].outcomes = Append(@, outcome)]
           /\ hist' = Record(sessions')
    /\ UNCHANGED << req, client >>

\* A faulty variant of Contribute: the prompt also quotes the contributions
\* made so far.
Contribute_SeesEarlier(w, outcome) ==
    /\ threads[w].pc = "loop"
    /\ Iterable(threads[w].councilors) => threads[w].i <= Len(threads[w].councilors.v)
    /\ LET sid == threads[w].sid
           councilors == threads[w].councilors
           i == threads[w].i
       IN  IF ~Iterable(councilors)
           THEN /\ threads' = [threads EXCEPT ![w].pc = "raised"]
                /\ UNCHANGED << sessions, hist >>
           ELSE LET councilor == councilors.v[i] IN
                IF IsSpeaker(councilor)
                THEN /\ threads' = [threads EXCEPT ![w].i = i + 1]
                     /\ UNCHANGED << sessions, hist >>
                ELSE IF ~Hashable(councilor)
                THEN /\ threads' = [threads EXCEPT ![w].pc = "raised"]
                     /\ UNCHANGED << sessions, hist >>
                ELSE LET prompt == [ContributionPrompt(PersonaGet(councilor),
                                        threads[w].topic, threads[w].opening)
                                      EXCEPT !.contributions =
                                          Contributions(sessions[sid].messages)]
                         response == query_lmstudio(prompt, outcome)
                     IN  /\ sessions' = AppendMessage(sessions, sid,
                                            Message(councilor, "contribution", response))
                         /\ threads' = [threads EXCEPT ![w].i = i + 1,
                                                       ![w].prompt = prompt,
                                                       ![w].outcomes = Append(@, outcome)]
                         /\ hist' = Record(sessions')
    /\ UNCHANGED << req, client >>

\* Lines 87-106: one iteration of `for councilor in councilors`.
Contribute(w, outcome) ==
    /\ threads[w].pc = "loop"
    /\ Iterable(threads[w].councilors) => threads[w].i <= Len(threads[w].councilors.v)
    /\ LET sid == threads[w].sid
           councilors == threads[w].councilors
           i == threads[w].i
       IN  IF ~Iterable(councilors)
           THEN \* TypeError at line 87: the thread dies
                /\ threads' = [threads EXCEPT ![w].pc = "raised"]
                /\ UNCHANGED << sessions, hist >>
           ELSE LET councilor == councilors.v[i] IN
                IF IsSpeaker(councilor)
                THEN \* continue
                     /\ threads' = [threads EXCEPT ![w].i = i + 1]
                     /\ UNCHANGED << sessions, hist >>
                ELSE IF ~Hashable(councilor)
                THEN \* TypeError at line 91: the thread dies
                     /\ threads' = [threads EXCEPT ![w].pc = "raised"]
                     /\ UNCHANGED << sessions, hist >>
                ELSE LET prompt == ContributionPrompt(PersonaGet(councilor),
                                       threads[w].topic, threads[w].opening)
                         response == query_lmstudio(prompt, outcome)
                     IN  /\ sessions' = AppendMessage(sessions, sid,
                                            Message(councilor, "contribution", response))
                         /\ threads' = [threads EXCEPT ![w].i = i + 1,
                                                       ![w].prompt = prompt,
                                                       ![w].outcomes = Append(@, outcome)]
                         /\ hist' = Record(sessions')
    /\ UNCHANGED << req, client >>

\* Lines 87, 108-132: the loop is exhausted; the Speaker's synthesis.
Synthesize(w, outcome) ==
    /\ threads[w].pc = "loop"
    /\ Iterable(threads[w].councilors)
    /\ threads[w].i > Len(threads[w].councilors.v)
    /\ LET sid == threads[w].sid
           synthesis_prompt == SynthesisPrompt(threads[w].topic, threads[w].opening,
                                   Contributions(sessions[sid].messages))
           synthesis == query_lmstudio(synthesis_prompt, outcome)
       IN  /\ sessions' = AppendMessage(sessions, sid,
                              Message(JStr("speaker"), "synthesis", synthesis))
           /\ threads' = [threads EXCEPT ![w].pc = "complete",
                                         ![w].synthesis = synthesis,
                                         ![w].prompt = synthesis_prompt,
                                         ![w].outcomes = Append(@, outcome)]
           /\ hist' = Record(sessions')
    /\ UNCHANGED << req, client >>

\* Line 134: session["status"] = "completed"
Complete(w) ==
    /\ threads[w].pc = "complete"
    /\ sessions' = [sessions EXCEPT ![threads[w].sid].status = "completed"]
    /\ threads' = [threads EXCEPT ![w].pc = "consensus"]
    /\ hist' = Record(sessions')
    /\ UNCHANGED << req, client >>

\* A faulty variant of SetConsensus: the opening statement is stored.
SetConsensus_Opening(w) ==
    /\ threads[w].pc = "consensus"
    /\ sessions' = [sessions EXCEPT
                       ![threads[w].sid].consensus = JStr(threads[w].opening)]
    /\ threads' = [threads EXCEPT ![w].pc = "done"]
    /\ hist' = Record(sessions')
    /\ UNCHANGED << req, client >>

\* Line 135: session["consensus"] = synthesis
SetConsensus(w) ==
    /\ threads[w].pc = "consensus"
    /\ sessions' = [sessions EXCEPT
                       ![threads[w].sid].consensus = JStr(threads[w].synthesis)]
    /\ threads' = [threads EXCEPT ![w].pc = "done"]
    /\ hist' = Record(sessions')
    /\ UNCHANGED << req, client >>

(***************************************************************************)
(* GET /api/session/<id>: the lookup, then the reads of status, messages   *)
(* and consensus that build the summary, one after the other.              *)
(***************************************************************************)
\* Lines 192-199: the lookup (404 when absent) and the fields that never change.
get_session(session_id) ==
    /\ req.op = "idle"
    /\ req' = IF session_id \in DOMAIN sessions
              THEN [Idle EXCEPT !.op = "get_session", !.pc = "status",
                                !.sid = session_id]
              ELSE [Idle EXCEPT !.op = "get_session", !.pc = "respond",
                                !.sid = session_id, !.code = 404]
    /\ UNCHANGED << sessions, threads, hist, client >>

\* Line 200: session["status"]
ReadStatus ==
    /\ req.op = "get_session" /\ req.pc = "status"
    /\ req' = [req EXCEPT !.pc = "count", !.status = sessions[req.sid].status]
    /\ UNCHANGED << sessions, threads, hist, client >>

\* Line 202: len(session["messages"])
ReadMessageCount ==
    /\ req.op = "get_session" /\ req.pc = "count"
    /\ req' = [req EXCEPT !.pc = "consensus",
                          !.messageCount = Len(sessions[req.sid].messages)]
    /\ UNCHANGED << sessions, threads, hist, client >>

\* Lines 203, 196: session.get("consensus"), and the response is built.
ReadConsensus ==
    /\ req.op = "get_session" /\ req.pc = "consensus"
    /\ req' = [req EXCEPT !.pc = "respond", !.code = 200,
                          !.consensus = sessions[req.sid].consensus]
    /\ UNCHANGED << sessions, threads, hist, client >>

(***************************************************************************)
(* GET /api/session/<id>/messages                                          *)
(***************************************************************************)
\* A faulty variant of get_messages: an unknown identifier yields an empty list.
get_messages_Lenient(session_id) ==
    /\ req.op = "idle"
    /\ req' = [Idle EXCEPT !.op = "get_messages", !.pc = "respond",
                           !.sid = session_id, !.code = 200,
                           !.messages = IF session_id \in DOMAIN sessions
                                        THEN sessions[session_id].messages
                                        ELSE <<>>]
    /\ UNCHANGED << sessions, threads, hist, client >>

get_messages(session_id) ==
    /\ req.op = "idle"
    /\ req' = IF session_id \in DOMAIN sessions
              THEN [Idle EXCEPT !.op = "get_messages", !.pc = "respond",
                                !.sid = session_id, !.code = 200,
                                !.messages = sessions[session_id].messages]
              ELSE [Idle EXCEPT !.op = "get_messages", !.pc = "respond",
                                !.sid = session_id, !.code = 404]
    /\ UNCHANGED << sessions, threads, hist, client >>

(***************************************************************************)
(* POST /api/inquire                                                       *)
(***************************************************************************)
\* The request bodies tried: without a question; a question alone; a question
\* for a registered councilor; a question with an unhashable "councilor".
InquireBodies ==
    { [councilor |-> JStr("technocrat")],
      [question |-> JStr("question")],
      [question |-> JStr("question"), councilor |-> JStr("technocrat")],
      [question |-> JStr("question"), councilor |-> JList(<< >>)] }

InquiryPrompt(persona, question) ==
    [kind |-> "inquiry", persona |-> persona, topic |-> question,
     opening |-> "", contributions |-> <<>>]

\* A faulty variant of inquire: the answer is filed in every stored session.
inquire_Filed(body, outcome) ==
    /\ req.op = "idle"
    /\ LET question == DictGet(body, "question", JNull)
           councilor == DictGet(body, "councilor", JStr("speaker"))
           answer == query_lmstudio(InquiryPrompt(PersonaGet(councilor), question),
                                    outcome)
       IN  /\ req' = [Idle EXCEPT !.op = "inquire", !.pc = "respond",
                                  !.code = 200, !.answer = answer]
           /\ sessions' = [id \in DOMAIN sessions |->
                             [sessions[id] EXCEPT !.messages =
                                 Append(@, Message(councilor, "inquiry", answer))]]
           /\ hist' = Record(sessions')
    /\ UNCHANGED << threads, client >>

\* inquire: 400 without a question; a TypeError (500) when the councilor
\* cannot be a dict key; else the gateway's answer.  No session is touched.
inquire(body, outcome) ==
    /\ req.op = "idle"
    /\ LET question == DictGet(body, "question", JNull)
           councilor == DictGet(body, "councilor", JStr("speaker"))
       IN  req' = IF ~Truthy(question)
                  THEN [Idle EXCEPT !.op = "inquire", !.pc = "respond", !.code = 400]
                  ELSE IF ~Hashable(councilor)
                  THEN [Idle EXCEPT !.op = "inquire", !.pc = "respond", !.code = 500]
                  ELSE [Idle EXCEPT !.op = "inquire", !.pc = "respond", !.code = 200,
                                    !.answer = query_lmstudio(
                                        InquiryPrompt(PersonaGet(councilor), question),
                                        outcome)]
    /\ UNCHANGED << sessions, threads, hist, client >>

\* The handler returns: the response leaves and its locals are gone.
Return ==
    /\ req.pc = "respond"
    /\ req' = Idle
    /\ UNCHANGED << sessions, threads, hist, client >>

\* The server under create requests only.
Next ==
    \/ \E body \in Bodies :
          Cardinality(DOMAIN sessions) < MaxSessions /\ create_session(body)
    \/ \E body \in Bodies :
          Cardinality(DOMAIN sessions) < MaxSessions /\ deliberate(body)
    \/ \E w \in DOMAIN threads : Start(w)
    \/ \E w \in DOMAIN threads, outcome \in GatewayOutcomes : Opening(w, outcome)
    \/ \E w \in DOMAIN threads, outcome \in GatewayOutcomes : Contribute(w, outcome)
    \/ \E w \in DOMAIN threads, outcome \in GatewayOutcomes : Synthesize(w, outcome)
    \/ \E w \in DOMAIN threads : Complete(w)
    \/ \E w \in DOMAIN threads : SetConsensus(w)
    \/ Return

Spec == Init /\ [][Next]_vars

\* The same server with fewer sessions, for the properties of progress.
RunNext ==
    \/ \E body \in Bodies :
          Cardinality(DOMAIN sessions) < MaxObserved /\ create_session(body)
    \/ \E body \in Bodies :
          Cardinality(DOMAIN sessions) < MaxObserved /\ deliberate(body)
    \/ \E w \in DOMAIN threads : Start(w)
    \/ \E w \in DOMAIN threads, outcome \in GatewayOutcomes : Opening(w, outcome)
    \/ \E w \in DOMAIN threads, outcome \in GatewayOutcomes : Contribute(w, outcome)
    \/ \E w \in DOMAIN threads, outcome \in GatewayOutcomes : Synthesize(w, outcome)
    \/ \E w \in DOMAIN threads : Complete(w)
    \/ \E w \in DOMAIN threads : SetConsensus(w)
    \/ Return

\* Every started thread keeps running (threading.Thread, daemon threads of a
\* server that stays up) and every gateway call returns or raises.
FairSpec ==
    /\ Init /\ [][RunNext]_vars
    /\ WF_vars(\E w \in DOMAIN threads : Start(w))
    /\ WF_vars(\E w \in DOMAIN threads, outcome \in GatewayOutcomes : Opening(w, outcome))
    /\ WF_vars(\E w \in DOMAIN threads, outcome \in GatewayOutcomes : Contribute(w, outcome))
    /\ WF_vars(\E w \in DOMAIN threads, outcome \in GatewayOutcomes : Synthesize(w, outcome))
    /\ WF_vars(\E w \in DOMAIN threads : Complete(w))
    /\ WF_vars(\E w \in DOMAIN threads : SetConsensus(w))

\* The server under create requests and reads of sessions and messages.
ReadNext ==
    \/ \E body \in Bodies :
          Cardinality(DOMAIN sessions) < MaxObserved /\ create_session(body)
    \/ \E body \in Bodies :
          Cardinality(DOMAIN sessions) < MaxObserved /\ deliberate(body)
    \/ \E w \in DOMAIN threads : Start(w)
    \/ \E w \in DOMAIN threads, outcome \in GatewayOutcomes : Opening(w, outcome)
    \/ \E w \in DOMAIN threads, outcome \in GatewayOutcomes : Contribute(w, outcome)
    \/ \E w \in DOMAIN threads, outcome \in GatewayOutcomes : Synthesize(w, outcome)
    \/ \E w \in DOMAIN threads : Complete(w)
    \/ \E w \in DOMAIN threads : SetConsensus(w)
    \/ \E session_id \in RequestIds : get_session(session_id)
    \/ ReadStatus
    \/ ReadMessageCount
    \/ ReadConsensus
    \/ \E session_id \in RequestIds : get_messages(session_id)
    \/ \E body \in InquireBodies, outcome \in GatewayOutcomes : inquire(body, outcome)
    \/ Return

ReadSpec == Init /\ [][ReadNext]_vars

(***************************************************************************)
(* The client library (ai-council-client.py, class AICouncilClient).       *)
(*                                                                         *)
(* Here the server is the environment of the client: every HTTP request   *)
(* is answered by one of the responses below, chosen freely.  An HTTP call *)
(* always returns or raises (each requests call carries a timeout).        *)
(* Time is the number of seconds since start_time, counted up to the       *)
(* timeout of the call: beyond it the only test made of the clock,         *)
(* time.time() - start_time < timeout, is false whatever the value.  The   *)
(* wall clock is taken to be monotone.                                     *)
(***************************************************************************)
\* Bound: the largest timeout, in seconds, a call is given.
MaxTimeout == 2
\* Bound: the largest poll_interval, in seconds, a call is given.
MaxPollInterval == 1

ServerVars == << sessions, threads, req, hist >>

\* What a requests call produces: a status code with the decoded body, or
\* (code 0) an exception: connection refused, timed out, body not JSON.
Reply(code, json) == [code |-> code, json |-> json]
Raised == Reply(0, JNull)

\* The session identifier the client was given by the server.
SessionId == JStr("s1")

\* Responses to GET /session/<id>: an exception, 404, a summary with each
\* status, an object without "status", an empty object, a body that is not
\* an object.
StatusReplies ==
    { Raised,
      Reply(404, JDict([error |-> JStr("Session not found")])),
      Reply(200, JDict([sessionId |-> SessionId])),
      Reply(200, JDict(<< >>)),
      Reply(200, JList(<< JNull >>)) }
      \cup { Reply(200, JDict([sessionId |-> SessionId, status |-> JStr(s)])) :
                s \in {"running", "completed", "failed"} }

\* Lines 104-105, 129-130, 163-164: `if not session_id: session_id = self.session_id`
Resolve(c, session_id) ==
    IF Truthy(session_id) THEN session_id ELSE c.self_session_id

\* get_session_status (lines 102-125): the decoded body of a 200 response,
\* None without an identifier, on any other status code and on an exception.
get_session_status(session_id, response) ==
    IF ~Truthy(Resolve(client, session_id)) THEN JNull
    ELSE IF response.code = 200 THEN response.json
    ELSE JNull

\* A faulty variant of Within: the loop is entered at the deadline itself.
Within_Inclusive(elapsed, timeout) == elapsed <= timeout

\* Line 173: time.time() - start_time < timeout
Within(elapsed, timeout) == elapsed < timeout

\* A faulty variant of AfterPoll: a poll without a status ends the wait.
AfterPoll_Abort(status) ==
    IF ~Truthy(status) THEN [pc |-> "wait_returned", waited |-> FALSE]
    ELSE IF status.t # "dict" THEN [pc |-> "raised", waited |-> FALSE]
    ELSE LET session_status == DictGet(status.v, "status", JStr("")) IN
         IF session_status = JStr("completed")
         THEN [pc |-> "wait_returned", waited |-> TRUE]
         ELSE IF session_status = JStr("failed")
         THEN [pc |-> "wait_returned", waited |-> FALSE]
         ELSE [pc |-> "sleep", waited |-> FALSE]

\* A faulty variant of AfterPoll: a poll without a status is retried at once.
AfterPoll_BusyRetry(status) ==
    IF ~Truthy(status) THEN [pc |-> "test", waited |-> FALSE]
    ELSE IF status.t # "dict" THEN [pc |-> "raised", waited |-> FALSE]
    ELSE LET session_status == DictGet(status.v, "status", JStr("")) IN
         IF session_status = JStr("completed")
         THEN [pc |-> "wait_returned", waited |-> TRUE]
         ELSE IF session_status = JStr("failed")
         THEN [pc |-> "wait_returned", waited |-> FALSE]
         ELSE [pc |-> "sleep", waited |-> FALSE]

\* A faulty variant of AfterPoll: a failed session is polled again.
AfterPoll_FailedRetries(status) ==
    IF ~Truthy(status) THEN [pc |-> "sleep", waited |-> FALSE]
    ELSE IF status.t # "dict" THEN [pc |-> "raised", waited |-> FALSE]
    ELSE LET session_status == DictGet(status.v, "status", JStr("")) IN
         IF session_status = JStr("completed")
         THEN [pc |-> "wait_returned", waited |-> TRUE]
         ELSE [pc |-> "sleep", waited |-> FALSE]

\* Lines 176-190: what the loop body does with the result of its poll.
\* A status that is not an object has no .get (AttributeError, line 180).
AfterPoll(status) ==
    IF ~Truthy(status) THEN [pc |-> "sleep", waited |-> FALSE]
    ELSE IF status.t # "dict" THEN [pc |-> "raised", waited |-> FALSE]
    ELSE LET session_status == DictGet(status.v, "status", JStr("")) IN
         IF session_status = JStr("completed")
         THEN [pc |-> "wait_returned", waited |-> TRUE]
         ELSE IF session_status = JStr("failed")
         THEN [pc |-> "wait_returned", waited |-> FALSE]
         ELSE [pc |-> "sleep", waited |-> FALSE]

\* The status a poll observed: the "status" of the summary it got, if any.
ObservedStatus(status) ==
    IF status.t = "dict" /\ "status" \in DOMAIN status.v
    THEN status.v["status"].v
    ELSE "none"

\* The kinds of request issued so far, with one more.
Noted(calls, kind) ==
    IF calls # <<>> /\ calls[Len(calls)] = kind THEN calls ELSE Append(calls, kind)

\* A call begins: fresh locals, the attribute self.session_id kept.
Call(op) ==
    [NoCall EXCEPT !.op = op, !.self_session_id = client.self_session_id,
                   !.completedSeen = client.completedSeen]

\* Lines 163-171: resolve the identifier; without one return False, else
\* take start_time.
EnterWait(c, session_id, timeout, poll_interval) ==
    IF ~Truthy(Resolve(c, session_id))
    THEN [c EXCEPT !.pc = "wait_returned", !.waited = FALSE]
    ELSE [c EXCEPT !.pc = "test", !.session_id = Resolve(c, session_id),
                   !.timeout = timeout, !.poll_interval = poll_interval,
                   !.elapsed = 0]

wait_for_completion(session_id, timeout, poll_interval) ==
    /\ client.op = "idle"
    /\ client' = EnterWait(Call("wait_for_completion"), session_id, timeout,
                           poll_interval)
    /\ UNCHANGED ServerVars

\* Line 173: the loop test; lines 192-193 when it fails.
LoopTest ==
    /\ client.pc = "test"
    /\ client' = IF Within(client.elapsed, client.timeout)
                 THEN [client EXCEPT !.pc = "poll"]
                 ELSE [client EXCEPT !.pc = "wait_returned", !.waited = FALSE]
    /\ UNCHANGED ServerVars

\* Lines 174-188: the client after the poll that got the given response.
Polled(response) ==
    LET status == get_session_status(client.session_id, response)
        after == AfterPoll(status)
    IN  [client EXCEPT !.status = status, !.pc = after.pc,
                       !.waited = after.waited,
                       !.polled = TRUE,
                       !.observed = @ \cup {ObservedStatus(status)},
                       !.fetchFailed = @ \/ response.code # 200,
                       !.sleepsSincePoll = 0,
                       !.calls = Noted(@, "status"),
                       !.completedSeen = IF after.waited
                                         THEN @ \cup {client.session_id}
                                         ELSE @]

\* Lines 174-188: one poll of the session status and the branch taken on it.
Poll(response) ==
    /\ client.pc = "poll"
    /\ client' = Polled(response)
    /\ UNCHANGED ServerVars

\* The clock after d more seconds of a call with the given timeout.
Later(elapsed, d, timeout) ==
    IF elapsed + d < timeout THEN elapsed + d ELSE timeout

\* Lines 177, 190: time.sleep(poll_interval), then back to the loop test.
Sleep ==
    /\ client.pc = "sleep"
    /\ client' = [client EXCEPT !.pc = "test",
                                !.elapsed = Later(@, client.poll_interval, client.timeout),
                                !.slept = TRUE,
                                !.sleepsSincePoll = @ + 1]
    /\ UNCHANGED ServerVars

\* A second passes while the call is in its loop.
Tick ==
    /\ client.pc \in {"test", "poll", "sleep"}
    /\ client.elapsed < client.timeout
    /\ client' = [client EXCEPT !.elapsed = Later(@, 1, client.timeout)]
    /\ UNCHANGED ServerVars

\* The call in progress has returned to its caller or raised.
Finished(c) ==
    \/ c.pc \in {"returned", "raised"}
    \/ c.op = "wait_for_completion" /\ c.pc = "wait_returned"

\* The caller takes the result; the client is ready for its next call.
CallReturns ==
    /\ Finished(client)
    /\ client' = Call("idle")
    /\ UNCHANGED ServerVars

(***************************************************************************)
(* AICouncilClient.create_session (lines 53-100).  The payload is not      *)
(* modelled: the environment answers as it likes.                          *)
(***************************************************************************)
\* Responses to POST /session: an exception, 400, the created session, an
\* object without "sessionId", an empty object, a body that is not an object.
CreateReplies ==
    { Raised,
      Reply(400, JDict([error |-> JStr("Topic is required")])),
      Reply(200, JDict([sessionId |-> SessionId, status |-> JStr("running")])),
      Reply(200, JDict([status |-> JStr("running")])),
      Reply(200, JDict(<< >>)),
      Reply(200, JList(<< JNull >>)) }

\* Lines 85-97: on 200 store data.get("sessionId") and return the body; a
\* body without .get raises inside the try and yields None like any failure.
CreateResult(c, response) ==
    IF response.code = 200 /\ response.json.t = "dict"
    THEN [data |-> response.json,
          self_session_id |-> DictGet(response.json.v, "sessionId", JNull)]
    ELSE [data |-> JNull, self_session_id |-> c.self_session_id]

AICouncilClient_create_session ==
    /\ client.op = "idle"
    /\ client' = [Call("create_session") EXCEPT !.pc = "create"]
    /\ UNCHANGED ServerVars

(***************************************************************************)
(* AICouncilClient.get_messages and get_results (lines 127-150, 195-223).  *)
(***************************************************************************)
\* Bound: the longest message sequence the messages endpoint serves.
MaxMessages == 2

\* The messages endpoint serves the stored messages, as run_deliberation
\* built them.
ServedMessage ==
    { Message(JStr("speaker"), "synthesis", t) :
        t \in {"reply", "Final Ruling: adopt", "FINAL PREDICTION: yes"} }
    \cup { Message(JStr("technocrat"), "contribution", t) :
        t \in {"reply", "Final Ruling: adopt", "FINAL PREDICTION: yes"} }

ServedMessages ==
    UNION { [1 .. n -> ServedMessage] : n \in 0 .. MaxMessages }

\* Responses to GET /session/<id>/messages.
MessageReplies ==
    { Raised, Reply(404, JDict([error |-> JStr("Session not found")])) }
    \cup { Reply(200, JList(q)) : q \in ServedMessages }

\* get_messages: the decoded body of a 200 response, [] otherwise.
AICouncilClient_get_messages(session_id, response) ==
    IF ~Truthy(Resolve(client, session_id)) THEN JList(<< >>)
    ELSE IF response.code = 200 THEN response.json
    ELSE JList(<< >>)

UpperCase == "ABCDEFGHIJKLMNOPQRSTUVWXYZ"
LowerCase == "abcdefghijklmnopqrstuvwxyz"

\* str.lower()
RECURSIVE Lower(_)
Lower(s) ==
    IF s = "" THEN ""
    ELSE LET ch == SubSeq(s, 1, 1)
             up == { k \in 1 .. Len(UpperCase) : SubSeq(UpperCase, k, k) = ch }
         IN  (IF up = {} THEN ch
              ELSE LET k == CHOOSE k \in up : TRUE IN SubSeq(LowerCase, k, k))
             \o Lower(SubSeq(s, 2, Len(s)))

\* `sub in s` on strings
Contains(s, sub) ==
    \E k \in 1 .. (Len(s) - Len(sub) + 1) : SubSeq(s, k, k + Len(sub) - 1) = sub

\* Lines 199-223 of get_results, on the value get_messages returned.
ResultOf(messages) ==
    IF ~Truthy(messages) THEN JNull
    ELSE LET q == messages.v
             Final(msg) ==
                 LET author == Lower(DictGet(msg, "author", JStr("")).v)
                     content == DictGet(msg, "content", "")
                 IN  /\ Contains(author, "speaker")
                     /\ \/ Contains(Lower(content), "final ruling")
                        \/ Contains(Lower(content), "final prediction")
             hits == { k \in 1 .. Len(q) : Final(q[k]) }
         IN  IF hits # {}
             THEN LET k == CHOOSE k \in hits : \A j \in hits : j <= k
                  IN  JDict([author |-> DictGet(q[k], "author", JNull),
                             content |-> DictGet(q[k], "content", ""),
                             type |-> "final_result"])
             ELSE JDict([author |-> DictGet(q[Len(q)], "author", JNull),
                         content |-> DictGet(q[Len(q)], "content", JNull),
                         type |-> "last_message"])

\* Line 197 with lines 129-134: without an identifier get_messages returns []
\* at once and get_results returns None; otherwise the messages are fetched.
BeginResults(c, session_id) ==
    IF ~Truthy(Resolve(c, session_id))
    THEN [c EXCEPT !.pc = "returned", !.messages = JList(<< >>), !.result = JNull]
    ELSE [c EXCEPT !.pc = "messages", !.session_id = Resolve(c, session_id)]

get_results(session_id) ==
    /\ client.op = "idle"
    /\ client' = BeginResults(Call("get_results"), session_id)
    /\ UNCHANGED ServerVars

\* Lines 136-150 and 199-223: the client after the fetch that got the given
\* response.
Fetched(response) ==
    LET messages == AICouncilClient_get_messages(client.session_id, response)
    IN  [client EXCEPT !.pc = "returned", !.messages = messages,
                       !.result = ResultOf(messages),
                       !.calls = Noted(@, "messages")]

\* Lines 136-150 and 199-223: the fetch returns and the result is picked.
FetchMessages(response) ==
    /\ client.pc = "messages"
    /\ client' = Fetched(response)
    /\ UNCHANGED ServerVars

(***************************************************************************)
(* AICouncilClient.quick_deliberate (lines 225-245).                       *)
(***************************************************************************)
\* Line 156: the poll_interval of a wait that is not given one.
DefaultPollInterval == 5

quick_deliberate(timeout) ==
    /\ client.op = "idle"
    /\ client' = [Call("quick_deliberate") EXCEPT !.pc = "create",
                                                  !.timeout = timeout]
    /\ UNCHANGED ServerVars

\* Lines 237-241: None if create_session returned nothing, else the wait.
AfterCreate(c) ==
    IF ~Truthy(c.data)
    THEN [c EXCEPT !.pc = "returned", !.result = JNull]
    ELSE EnterWait(c, JNull, c.timeout, DefaultPollInterval)

\* Lines 78-100: the client after the POST that got the given response.
Created(response) ==
    LET r == CreateResult(client, response)
        c == [client EXCEPT !.data = r.data,
                            !.self_session_id = r.self_session_id,
                            !.calls = Noted(@, "create")]
    IN  IF client.op = "quick_deliberate"
        THEN AfterCreate(c)
        ELSE [c EXCEPT !.pc = "returned", !.result = r.data]

\* Lines 78-100: the POST returns, to create_session's caller.
CreateReply(response) ==
    /\ client.pc = "create"
    /\ client' = Created(response)
    /\ UNCHANGED ServerVars

\* A faulty variant of AfterWait: the result is fetched whatever the wait said.
AfterWait_Always(c) == BeginResults(c, JNull)

\* Lines 241-245: None if the wait returned False, else get_results().
AfterWait(c) ==
    IF ~c.waited
    THEN [c EXCEPT !.pc = "returned", !.result = JNull]
    ELSE BeginResults(c, JNull)

ResumeQuick ==
    /\ client.op = "quick_deliberate" /\ client.pc = "wait_returned"
    /\ client' = AfterWait(client)
    /\ UNCHANGED ServerVars

\* The client alone, against a server that answers as it likes.
ClientNext ==
    \/ \E session_id \in {JNull, SessionId}, timeout \in 0 .. MaxTimeout,
          poll_interval \in 0 .. MaxPollInterval :
          wait_for_completion(session_id, timeout, poll_interval)
    \/ LoopTest
    \/ \E response \in StatusReplies : Poll(response)
    \/ Sleep
    \/ Tick
    \/ AICouncilClient_create_session
    \/ \E response \in CreateReplies : CreateReply(response)
    \/ \E session_id \in {JNull, SessionId} : get_results(session_id)
    \/ \E response \in MessageReplies : FetchMessages(response)
    \/ \E timeout \in 0 .. MaxTimeout : quick_deliberate(timeout)
    \/ ResumeQuick
    \/ CallReturns

ClientSpec == Init /\ [][ClientNext]_vars

\* The client's thread keeps running and the clock keeps advancing.
FairClientSpec ==
    /\ ClientSpec
    /\ WF_vars(LoopTest)
    /\ WF_vars(\E response \in StatusReplies : Poll(response))
    /\ WF_vars(Sleep)
    /\ WF_vars(Tick)
    /\ WF_vars(\E response \in CreateReplies : CreateReply(response))
    /\ WF_vars(ResumeQuick)

(***************************************************************************)
(* The client against the server of this repository: the requests of the   *)
(* client are handled by the server's handlers, while the worker threads    *)
(* run.  The transport is local and reliable: every request is answered.    *)
(***************************************************************************)
\* str(session_id): the identifier as it travels in JSON and in URLs.
IdString(id) == JStr(ToString(id))

\* The session a handler looks up for <session_id> in the URL (0: none).
IdOfString(j) ==
    IF \E id \in RequestIds : IdString(id) = j
    THEN CHOOSE id \in RequestIds : IdString(id) = j
    ELSE 0

\* Lines 73-79 of the client: the payload of create_session, with and
\* without a topic, and with a list of councilors.
Payloads ==
    { [mode |-> JStr("deliberation"), topic |-> Topic],
      [mode |-> JStr("deliberation"), topic |-> JStr("")],
      [mode |-> JStr("deliberation"), topic |-> Topic,
       councilors |-> JList(<< JStr("technocrat"), JStr("speaker"), JStr("oracle") >>)] }

\* quick_deliberate passes no councilors (line 237).
PayloadsOf(op) ==
    IF op = "quick_deliberate"
    THEN { body \in Payloads : "councilors" \notin DOMAIN body }
    ELSE Payloads

\* requests.post(f"{self.api_url}/session", json=payload) reaches create_session.
SendCreate(body) ==
    /\ client.pc = "create"
    /\ body \in PayloadsOf(client.op)
    /\ create_session(body)

\* requests.get(f"{self.api_url}/session/{session_id}") reaches get_session.
SendPoll ==
    /\ client.pc = "poll"
    /\ get_session(IdOfString(client.session_id))

\* requests.get(f"{self.api_url}/session/{session_id}/messages") reaches get_messages.
SendFetch ==
    /\ client.pc = "messages"
    /\ get_messages(IdOfString(client.session_id))

\* The response of the handler that has finished.
Response ==
    CASE req.code # 200 ->
            Reply(req.code, JDict([error |-> JStr("error")]))
      [] req.op = "create" ->
            Reply(200, JDict([sessionId |-> IdString(req.sid),
                              status |-> JStr(req.status)]))
      [] req.op = "get_session" ->
            Reply(200, JDict([sessionId |-> IdString(req.sid),
                              status |-> JStr(req.status),
                              messageCount |-> req.messageCount,
                              consensus |-> req.consensus]))
      [] OTHER -> Reply(200, JList(req.messages))

\* The handler returns and the client's call of requests returns with it.
CreateServed ==
    /\ client.pc = "create"
    /\ req.op = "create" /\ req.pc = "respond"
    /\ client' = Created(Response)
    /\ req' = Idle
    /\ UNCHANGED << sessions, threads, hist >>

PollServed ==
    /\ client.pc = "poll"
    /\ req.op = "get_session" /\ req.pc = "respond"
    /\ client' = Polled(Response)
    /\ req' = Idle
    /\ UNCHANGED << sessions, threads, hist >>

FetchServed ==
    /\ client.pc = "messages"
    /\ req.op = "get_messages" /\ req.pc = "respond"
    /\ client' = Fetched(Response)
    /\ req' = Idle
    /\ UNCHANGED << sessions, threads, hist >>

SystemNext ==
    \/ \E session_id \in {JNull, IdString(1)}, timeout \in 0 .. MaxTimeout,
          poll_interval \in 0 .. MaxPollInterval :
          wait_for_completion(session_id, timeout, poll_interval)
    \/ LoopTest
    \/ Sleep
    \/ Tick
    \/ Cardinality(DOMAIN sessions) < MaxObserved /\ AICouncilClient_create_session
    \/ \E session_id \in {JNull, IdString(1)} : get_results(session_id)
    \/ \E timeout \in 0 .. MaxTimeout :
          Cardinality(DOMAIN sessions) < MaxObserved /\ quick_deliberate(timeout)
    \/ ResumeQuick
    \/ CallReturns
    \/ \E body \in Payloads : SendCreate(body)
    \/ SendPoll
    \/ SendFetch
    \/ ReadStatus
    \/ ReadMessageCount
    \/ ReadConsensus
    \/ CreateServed
    \/ PollServed
    \/ FetchServed
    \/ \E w \in DOMAIN threads : Start(w)
    \/ \E w \in DOMAIN threads, outcome \in GatewayOutcomes : Opening(w, outcome)
    \/ \E w \in DOMAIN threads, outcome \in GatewayOutcomes : Contribute(w, outcome)
    \/ \E w \in DOMAIN threads, outcome \in GatewayOutcomes : Synthesize(w, outcome)
    \/ \E w \in DOMAIN threads : Complete(w)
    \/ \E w \in DOMAIN threads : SetConsensus(w)

SystemSpec == Init /\ [][SystemNext]_vars

(***************************************************************************)
(* Properties.                                                             *)
(***************************************************************************)
Terminal == {"completed", "failed"}

StatusStep(a, b) ==
    \/ a = b
    \/ << a, b >> \in { << "created", "running" >>, << "running", "completed" >>,
                       << "running", "failed" >> }

\* The statuses a session has held so far.
StatusesHeld(sid) == { h.status : h \in hist[sid] }

\* C1: the stored status of every session only moves created -> running ->
\* completed (or failed): a new session starts as created, no step moves it
\* backwards or from created straight to a terminal value, and a terminal
\* status never changes.
C1_StatusMonotonic ==
    [][ /\ \A sid \in DOMAIN sessions :
              /\ sid \in DOMAIN sessions'
              /\ StatusStep(sessions[sid].status, sessions'[sid].status)
        /\ \A sid \in DOMAIN sessions' \ DOMAIN sessions :
              sessions'[sid].status = "created" ]_vars

C1_Witness ==
    \E sid \in DOMAIN sessions :
        StatusesHeld(sid) = {"created", "running", "completed"}

\* C2: a session whose status is completed has a non-null consensus, in the
\* store and in every summary GET /api/session/<id> returns.
C2_CompletedHasConsensus ==
    /\ \A sid \in DOMAIN sessions :
          sessions[sid].status = "completed" => sessions[sid].consensus # JNull
    /\ (req.op = "get_session" /\ req.pc = "respond" /\ req.code = 200
          /\ req.status = "completed") => req.consensus # JNull

\* The entries of a councilor list that get a contribution turn.
NonSpeaker(L) ==
    LET Other(c) == c # JStr("speaker") IN SelectSeq(L, Other)

\* opening(speaker), contribution(p) for each non-speaker p of L, synthesis(speaker)
ExpectedTranscript(L) ==
    << [councilor |-> JStr("speaker"), role |-> "opening"] >>
      \o [k \in 1 .. Len(NonSpeaker(L)) |->
            [councilor |-> NonSpeaker(L)[k], role |-> "contribution"]]
      \o << [councilor |-> JStr("speaker"), role |-> "synthesis"] >>

\* Author and role of each message, in order.
Shape(messages) ==
    [k \in 1 .. Len(messages) |->
        [councilor |-> messages[k].councilor, role |-> messages[k].role]]

\* C3: the messages of a completed session with councilor list L are exactly
\* the opening by the speaker, one contribution per entry of L other than
\* "speaker" in L's order, and the synthesis by the speaker.
C3_CompletedTranscript ==
    \A sid \in DOMAIN sessions :
        sessions[sid].status = "completed" =>
            /\ sessions[sid].councilors.t = "list"
            /\ Shape(sessions[sid].messages)
                 = ExpectedTranscript(sessions[sid].councilors.v)

C3_Witness ==
    \E sid \in DOMAIN sessions :
        /\ sessions[sid].status = "completed"
        /\ sessions[sid].councilors
             = JList(<< JStr("technocrat"), JStr("speaker"), JStr("oracle") >>)
        /\ Len(sessions[sid].messages) = 4

\* The thread has ended: it returned or died of an exception.
Ended(w) == threads[w].pc \in {"done", "raised", "returned"}

\* C4: every created session reaches completed or failed, and only one of
\* the two: the session of every worker that has ended is completed or
\* failed (once its worker has ended a session changes no more, so one that
\* is not terminal then never becomes terminal), and no session has held
\* both statuses.
C4_EndsTerminal ==
    \A w \in DOMAIN threads :
        /\ Ended(w) =>
              /\ threads[w].sid \in DOMAIN sessions
              /\ sessions[threads[w].sid].status \in Terminal
        /\ ~(Terminal \subseteq StatusesHeld(threads[w].sid))

\* Every gateway call the thread has made so far failed.
AllFailed(w) ==
    \A k \in 1 .. Len(threads[w].outcomes) : ~threads[w].outcomes[k].ok

\* A councilor list the loop can walk: a list of hashable entries.
WellFormed(c) ==
    /\ Iterable(c)
    /\ \A k \in 1 .. Len(c.v) : Hashable(c.v[k])

\* C5: while every gateway call of a run fails, each call still yields one
\* message holding that call's error marker, the run goes on through every
\* turn, the status is never failed, and the run ends completed with the
\* consensus equal to the marker of the synthesis call.
C5_DegradeAndContinue ==
    \A w \in DOMAIN threads :
        LET t == threads[w]
            s == sessions[t.sid]
        IN  (t.pc # "start" /\ AllFailed(w) /\ WellFormed(s.councilors)) =>
              /\ s.status # "failed"
              /\ t.pc \notin {"raised", "returned"}
              /\ Len(s.messages) = Len(t.outcomes)
              /\ \A k \in 1 .. Len(s.messages) :
                    s.messages[k].content = ErrorMarker(t.outcomes[k].text)
              /\ t.pc = "done" =>
                    /\ s.status = "completed"
                    /\ Len(s.messages) = 2 + Len(NonSpeaker(s.councilors.v))
                    /\ s.messages[Len(s.messages)].role = "synthesis"
                    /\ s.consensus = JStr(s.messages[Len(s.messages)].content)
                    /\ IsErrorMarker(s.consensus.v)

C5_Witness ==
    \E w \in DOMAIN threads :
        /\ threads[w].pc = "done"
        /\ AllFailed(w)
        /\ Len(threads[w].outcomes) = 4
        /\ sessions[threads[w].sid].status = "completed"

\* C6: a session whose worker hit an orchestration fault (it found no
\* session, or a turn raised) has status failed and no consensus.
C6_FaultMarksFailed ==
    \A w \in DOMAIN threads :
        (threads[w].pc \in {"raised", "returned"}
            /\ threads[w].sid \in DOMAIN sessions) =>
            /\ sessions[threads[w].sid].status = "failed"
            /\ sessions[threads[w].sid].consensus = JNull

\* C7: a create request whose topic is missing or empty is answered 400 and
\* leaves the session store and the set of threads as they were.
C7_RejectedCreate ==
    [][ (req.op = "idle" /\ req'.op = "create"
            /\ req'.topic \in {JNull, JStr("")}) =>
            /\ req'.code = 400
            /\ sessions' = sessions
            /\ threads' = threads ]_vars

C7_Witness ==
    /\ req.op = "create" /\ req.pc = "respond" /\ req.code = 400
    /\ req.topic = JStr("")
    /\ DOMAIN sessions # {}

\* The response of a read of a session or of its messages.
ReadResponse ==
    req.op \in {"get_session", "get_messages"} /\ req.pc = "respond"

\* C8: GET /api/session/<id> and GET /api/session/<id>/messages answer 404
\* exactly for the identifiers no create request has allocated.
C8_NotFoundIffUnknown ==
    ReadResponse => (req.code = 404 <=> req.sid \notin DOMAIN sessions)

C8_Witness ==
    /\ req.op = "get_messages" /\ req.pc = "respond" /\ req.code = 404
    /\ \E w \in DOMAIN threads : threads[w].pc = "loop"

\* The workers bound to a session identifier.
WorkersOf(sid) == { w \in DOMAIN threads : threads[w].sid = sid }

\* C9: every session has exactly one worker thread, every thread is bound
\* to a stored session, and each successful create request allocates an
\* identifier that was not in the store and starts exactly one thread, bound
\* to that identifier.
C9_OneWorkerPerSession ==
    /\ [](/\ \A sid \in DOMAIN sessions : Cardinality(WorkersOf(sid)) = 1
          /\ \A w \in DOMAIN threads : threads[w].sid \in DOMAIN sessions)
    /\ [][ (req.op = "idle" /\ req'.op = "create" /\ req'.code = 200) =>
              /\ req'.sid \notin DOMAIN sessions
              /\ DOMAIN sessions' = DOMAIN sessions \cup {req'.sid}
              /\ Len(threads') = Len(threads) + 1
              /\ SubSeq(threads', 1, Len(threads)) = threads
              /\ threads'[Len(threads')].sid = req'.sid ]_vars

C9_Witness ==
    /\ Cardinality(DOMAIN sessions) = 2
    /\ \A w \in DOMAIN threads : threads[w].pc = "loop"

\* C10: the summary GET /api/session/<id> returns (status, messageCount,
\* consensus) is one the store has held for that session.
C10_ConsistentSummary ==
    (req.op = "get_session" /\ req.pc = "respond" /\ req.code = 200) =>
        [status |-> req.status, messageCount |-> req.messageCount,
         consensus |-> req.consensus] \in hist[req.sid]

(***************************************************************************)
(* Properties of the client.                                               *)
(***************************************************************************)
InWaitLoop == client.pc \in {"test", "poll", "sleep"}

\* The step is a poll: the loop leaves line 174 with a new `status`.
PollStep == client.pc = "poll" /\ client'.pc # "poll"

\* C11: wait_for_completion returns True only if one of its polls observed
\* status completed; the poll that observes failed is its last step (it
\* returns False there); a loop test made when the elapsed time has reached
\* the timeout returns False; and once in its loop the call always ends.
C11_WaitContract ==
    /\ [](client.pc = "wait_returned" /\ client.waited
            => "completed" \in client.observed)
    /\ [][ /\ PollStep /\ ObservedStatus(client'.status) = "failed"
                => client'.pc = "wait_returned" /\ ~client'.waited
           /\ client.pc = "test" /\ client'.pc # "test"
                /\ client.elapsed >= client.timeout
                => client'.pc = "wait_returned" /\ ~client'.waited ]_vars
    /\ (InWaitLoop ~> client.pc \in {"wait_returned", "raised"})

\* A wait that polled a running session, slept, and returned True.
C11_Witness ==
    /\ client.op = "wait_for_completion" /\ client.pc = "wait_returned"
    /\ client.waited /\ client.slept
    /\ {"running", "completed"} \subseteq client.observed

\* C12: a wait with timeout 0 on a session (whatever its status, running
\* included) issues no poll and no sleep: its first loop test returns False,
\* and that test is always reached.
C12_ZeroTimeout ==
    /\ [](Truthy(client.session_id) /\ client.timeout = 0
            /\ client.pc \in {"test", "poll", "sleep", "wait_returned"}
            => /\ ~client.polled /\ ~client.slept
               /\ client.pc \in {"test", "wait_returned"}
               /\ ~client.waited)
    /\ [][client.pc = "test" /\ client.timeout = 0 /\ client' # client
            => client'.pc = "wait_returned" /\ ~client'.waited]_vars
    /\ (client.pc = "test" /\ client.timeout = 0 ~> client.pc = "wait_returned")

\* wait_for_completion(session_id, timeout=0) has returned False.
C12_Witness ==
    /\ client.op = "wait_for_completion" /\ Truthy(client.session_id)
    /\ client.timeout = 0 /\ client.pc = "wait_returned" /\ ~client.waited

\* C13: a poll that yields no status (exception or non-200 response) never
\* ends the wait: the call goes to sleep, after the sleep it is back at the
\* loop test, which polls again while the elapsed time is below the timeout;
\* and a poll that observes completed returns True whatever failed before it.
C13_RepollOnFetchError ==
    [][ /\ PollStep /\ client'.status = JNull => client'.pc = "sleep"
        /\ client.pc = "sleep" /\ client'.pc # "sleep" => client'.pc = "test"
        /\ client.pc = "test" /\ client'.pc # "test"
             /\ client.elapsed < client.timeout
             => client'.pc = "poll"
        /\ PollStep /\ ObservedStatus(client'.status) = "completed"
             => client'.pc = "wait_returned" /\ client'.waited ]_vars

\* A wait in which a poll failed, and which then slept, polled again and
\* returned True.
C13_Witness ==
    /\ client.op = "wait_for_completion" /\ client.pc = "wait_returned"
    /\ client.fetchFailed /\ client.slept /\ client.waited
    /\ client.observed = {"none", "completed"}

\* C14: every poll but the first of a wait is preceded, since the poll before
\* it, by exactly one sleep, whichever branch the earlier poll took; and a
\* sleep lasts poll_interval seconds (the clock is followed up to the timeout).
C14_OneSleepBetweenPolls ==
    [][ /\ PollStep /\ client.polled => client.sleepsSincePoll = 1
        /\ client.pc = "sleep" /\ client'.pc # "sleep"
             => \/ client'.elapsed = client.elapsed + client.poll_interval
                \/ /\ client'.elapsed = client.timeout
                   /\ client.elapsed + client.poll_interval >= client.timeout
      ]_vars

\* A wait whose polls met a failed fetch and a running session, with a sleep
\* after each, and which has just polled again.
C14_Witness ==
    /\ client.op = "wait_for_completion" /\ client.pc = "sleep"
    /\ client.polled /\ client.slept /\ client.sleepsSincePoll = 0
    /\ client.fetchFailed /\ "running" \in client.observed

\* The recorded author of a served message is its "councilor" (the persona
\* identifier run_deliberation stores); a message is a final one if that is
\* the speaker and its content holds one of the two phrases, in any case.
IsFinal(m) ==
    /\ m.councilor = JStr("speaker")
    /\ \/ Contains(Lower(m.content), "final ruling")
       \/ Contains(Lower(m.content), "final prediction")

\* The author and content get_results is to return for the served sequence q.
ExpectedResult(q) ==
    IF Len(q) = 0 THEN JNull
    ELSE LET finals == { k \in 1 .. Len(q) : IsFinal(q[k]) }
             k == IF finals # {}
                  THEN CHOOSE j \in finals : \A i \in finals : i <= j
                  ELSE Len(q)
         IN  [author |-> q[k].councilor, content |-> q[k].content]

\* The author and content of a result of get_results.
ResultView(result) ==
    IF result = JNull THEN JNull
    ELSE [author |-> result.v.author, content |-> result.v.content]

\* C15: when get_results has returned, its result is the newest message of
\* the fetched sequence whose recorded author is the speaker and whose content
\* contains "final ruling" or "final prediction" in any case; without such a
\* message, the author and content of the last message; null for no messages.
C15_ResultIsFinalRuling ==
    client.op = "get_results" /\ client.pc = "returned" /\ client.messages # JNull
        => ResultView(client.result) = ExpectedResult(client.messages.v)

QuickOrder == << "create", "status", "messages" >>

\* C16: the requests of a quick_deliberate come in the order create, status
\* polls, messages; if create_session returned nothing the call returns null
\* having issued the create request only; and the messages are fetched only
\* after the wait returned True: a wait that returned False ends the call
\* with null and without a fetch of the messages.
C16_QuickShortCircuit ==
    client.op = "quick_deliberate" =>
        /\ Len(client.calls) <= Len(QuickOrder)
        /\ \A k \in 1 .. Len(client.calls) : client.calls[k] = QuickOrder[k]
        /\ client.pc = "returned" /\ client.data \in {JNull, JDict(<< >>)}
             => client.calls = << "create" >> /\ client.result = JNull
        /\ client.pc = "messages" \/ (\E k \in 1 .. Len(client.calls) :
                                         client.calls[k] = "messages")
             => client.waited /\ "completed" \in client.observed
        /\ client.pc = "returned" /\ ~client.waited => client.result = JNull

\* A quick_deliberate that created, polled, fetched and returned a result.
C16_Witness ==
    /\ client.op = "quick_deliberate" /\ client.pc = "returned"
    /\ client.calls = QuickOrder /\ client.result # JNull

\* A quick_deliberate whose create_session failed.
C16_WitnessCreateFailed ==
    /\ client.op = "quick_deliberate" /\ client.pc = "returned"
    /\ client.data = JNull /\ client.calls = << "create" >>

\* A quick_deliberate whose wait returned False after polling.
C16_WitnessWaitFailed ==
    /\ client.op = "quick_deliberate" /\ client.pc = "returned"
    /\ ~client.waited /\ client.calls = << "create", "status" >>

(***************************************************************************)
(* Properties of the server, continued.                                    *)
(***************************************************************************)
ReadOps == {"get_session", "get_messages", "inquire"}

\* The step is one of a read or inquire handler: it changes the request in
\* progress, which is or becomes one of theirs.
ReadHandlerStep == req' # req /\ (req.op \in ReadOps \/ req'.op \in ReadOps)

\* C17: no step of GET /api/session/<id>, GET /api/session/<id>/messages or
\* POST /api/inquire changes the session store, and the message count a read
\* returns is the length of the stored sequence as it is; so two reads with no
\* change of the store between them return the same count.
C17_ReadsLeaveStore ==
    [][ /\ ReadHandlerStep => sessions' = sessions /\ hist' = hist
        /\ ReadHandlerStep /\ req.pc = "count"
             => req'.messageCount = Len(sessions'[req.sid].messages) ]_vars

\* An inquiry answered while a session with messages is running.
C17_Witness ==
    /\ req.op = "inquire" /\ req.code = 200 /\ req.answer # ""
    /\ \E sid \in DOMAIN sessions :
          sessions[sid].status = "running" /\ Len(sessions[sid].messages) >= 1

\* A read of a running session with messages has answered with their count.
C17_WitnessRead ==
    /\ req.op = "get_session" /\ req.pc = "respond" /\ req.code = 200
    /\ req.sid \in DOMAIN sessions
    /\ req.messageCount >= 1
    /\ req.messageCount = Len(sessions[req.sid].messages)

IsPrefix(p, q) == Len(p) <= Len(q) /\ \A k \in 1 .. Len(p) : p[k] = q[k]

\* The configured councilors in order; none if the value is not a list.
Configured(councilors) == IF councilors.t = "list" THEN councilors.v ELSE << >>

\* C18: the messages of a running session are a prefix of opening (speaker),
\* one contribution per configured councilor other than the speaker, in the
\* configured order, synthesis (speaker); and every step leaves the messages
\* of every session as they are or appends exactly one message at the end.
C18_AppendOnlyTranscript ==
    /\ [](\A sid \in DOMAIN sessions :
            sessions[sid].status = "running" =>
                IsPrefix(Shape(sessions[sid].messages),
                         ExpectedTranscript(Configured(sessions[sid].councilors))))
    /\ [][\A sid \in DOMAIN sessions :
            LET old == sessions[sid].messages
                new == sessions'[sid].messages
            IN  \/ new = old
                \/ /\ Len(new) = Len(old) + 1
                   /\ SubSeq(new, 1, Len(old)) = old]_vars

\* A running session with the opening and the contributions of both
\* non-speaker councilors, the synthesis still to come.
C18_Witness ==
    \E sid \in DOMAIN sessions :
        /\ sessions[sid].status = "running"
        /\ Shape(sessions[sid].messages)
             = << [councilor |-> JStr("speaker"), role |-> "opening"],
                  [councilor |-> JStr("technocrat"), role |-> "contribution"],
                  [councilor |-> JStr("oracle"), role |-> "contribution"] >>

\* Thread w has made a contribution turn and is back at the head of the loop:
\* the prompt it holds is the one it sent for that turn.
AfterContribution(w) ==
    threads[w].pc = "loop" /\ threads[w].prompt.kind = "contribution"

\* The councilor of the turn thread w made last.
TurnOf(w) ==
    LET messages == sessions[threads[w].sid].messages
    IN  messages[Len(messages)].councilor

\* C19: two runs whose last contribution turns have the same persona
\* fragment, the same topic and the same opening statement sent the same
\* prompt for that turn, whatever the gateway returned in their other
\* contribution turns.  (Two sessions of one server are two runs.)
C19_PromptIndependence ==
    \A w1, w2 \in DOMAIN threads :
        /\ AfterContribution(w1) /\ AfterContribution(w2)
        /\ PersonaGet(TurnOf(w1)) = PersonaGet(TurnOf(w2))
        /\ threads[w1].topic = threads[w2].topic
        /\ threads[w1].opening = threads[w2].opening
        => threads[w1].prompt = threads[w2].prompt

\* Two runs of the same request, past the second contribution turn, that got
\* the same opening and different texts in the first contribution turn.
C19_Witness ==
    \E w1, w2 \in DOMAIN threads :
        /\ AfterContribution(w1) /\ AfterContribution(w2)
        /\ threads[w1].councilors = threads[w2].councilors
        /\ threads[w1].i = 4 /\ threads[w2].i = 4
        /\ threads[w1].opening = threads[w2].opening
        /\ threads[w1].outcomes[2] # threads[w2].outcomes[2]
        /\ sessions[threads[w1].sid].messages[2].content
             # sessions[threads[w2].sid].messages[2].content
        /\ threads[w1].prompt = threads[w2].prompt

\* The synthesis message has been appended to the messages.
HasSynthesis(messages) ==
    \E k \in 1 .. Len(messages) : messages[k].role = "synthesis"

\* C20: a session whose consensus is not null has messages, the last of them
\* is the speaker's synthesis, and the consensus is the content of that
\* message; a session without a synthesis message has a null consensus.
C20_ConsensusIsSynthesis ==
    \A sid \in DOMAIN sessions :
        LET messages == sessions[sid].messages
            consensus == sessions[sid].consensus
        IN  /\ consensus # JNull =>
                 /\ Len(messages) >= 1
                 /\ messages[Len(messages)].role = "synthesis"
                 /\ messages[Len(messages)].councilor = JStr("speaker")
                 /\ consensus = JStr(messages[Len(messages)].content)
            /\ ~HasSynthesis(messages) => consensus = JNull

\* A session whose consensus is set, with an opening and a synthesis of
\* different texts.
C20_Witness ==
    \E sid \in DOMAIN sessions :
        /\ sessions[sid].consensus # JNull
        /\ Len(sessions[sid].messages) >= 2
        /\ sessions[sid].messages[1].content
             # sessions[sid].messages[Len(sessions[sid].messages)].content

\* An identifier that is a string and no key of the persona registry.
Unregistered(c) == c.t = "str" /\ c.v \notin DOMAIN COUNCILOR_PERSONAS

\* The session was configured with a list of strings of which one at least
\* is not a registered persona.
HasUnregistered(sid) ==
    /\ sid \in DOMAIN sessions
    /\ sessions[sid].councilors.t = "list"
    /\ \A k \in 1 .. Len(sessions[sid].councilors.v) :
          sessions[sid].councilors.v[k].t = "str"
    /\ \E k \in 1 .. Len(sessions[sid].councilors.v) :
          Unregistered(sessions[sid].councilors.v[k])

\* C21: the turn of a councilor that is not in the persona registry is made
\* with the speaker's fragment and appends a contribution carrying the given
\* identifier; the worker of such a session never dies and the session is
\* never failed; and the session ends completed.
C21_UnknownPersonaFallsBack ==
    /\ [](\A w \in DOMAIN threads :
            LET t == threads[w]
                s == sessions[t.sid]
            IN  /\ t.pc = "loop" /\ t.i >= 2 /\ Unregistered(t.councilors.v[t.i - 1])
                     => /\ t.prompt.kind = "contribution"
                        /\ t.prompt.persona = COUNCILOR_PERSONAS["speaker"]
                        /\ s.messages[Len(s.messages)].role = "contribution"
                        /\ s.messages[Len(s.messages)].councilor
                             = t.councilors.v[t.i - 1]
                /\ HasUnregistered(t.sid)
                     => t.pc \notin {"raised", "returned"} /\ s.status # "failed")
    /\ \A sid \in 1 .. MaxSessions :
          HasUnregistered(sid) ~> (/\ sid \in DOMAIN sessions
                                   /\ sessions[sid].status = "completed"
                                   /\ sessions[sid].consensus # JNull)

\* A completed session whose third message is the contribution of "oracle",
\* made with the speaker's fragment.
C21_Witness ==
    \E w \in DOMAIN threads :
        LET s == sessions[threads[w].sid] IN
        /\ threads[w].pc = "done" /\ s.status = "completed"
        /\ Len(s.messages) = 4
        /\ s.messages[3].councilor = JStr("oracle")
        /\ s.messages[3].role = "contribution"
        /\ PersonaGet(JStr("oracle")) = COUNCILOR_PERSONAS["speaker"]

\* The step is one of worker w: its thread record changes and no thread is
\* started.
WorkerStep(w) ==
    /\ Len(threads') = Len(threads)
    /\ threads'[w] # threads[w]

\* The text the gateway outcome o left in the transcript.
TextOf(o) == IF o.ok THEN o.text ELSE ErrorMarker(o.text)

\* C22: a step of the worker of a session leaves every other session (its
\* status, messages and consensus) as it was, and the messages of a session
\* are, in order, the texts of the gateway calls made by its own worker, in
\* every state of every interleaving of the workers.
C22_WorkersIsolated ==
    /\ [][\A w \in DOMAIN threads :
            WorkerStep(w) =>
                /\ DOMAIN sessions' = DOMAIN sessions
                /\ \A sid \in DOMAIN sessions :
                      sid # threads[w].sid => sessions'[sid] = sessions[sid]]_vars
    /\ [](\A w \in DOMAIN threads :
            LET messages == sessions[threads[w].sid].messages
                outcomes == threads[w].outcomes
            IN  /\ Len(messages) = Len(outcomes)
                /\ \A k \in 1 .. Len(messages) :
                      messages[k].content = TextOf(outcomes[k]))

\* Two sessions run to their end side by side, with transcripts of different
\* length and different texts.
C22_Witness ==
    /\ Cardinality(DOMAIN sessions) = 2
    /\ \A w \in DOMAIN threads : threads[w].pc = "done"
    /\ Len(sessions[1].messages) = 4 /\ Len(sessions[2].messages) = 2
    /\ sessions[1].messages[1].content # sessions[2].messages[1].content
    /\ sessions[1].consensus # sessions[2].consensus

(***************************************************************************)
(* Properties of the client against the server.                            *)
(***************************************************************************)
\* The call has fetched the messages of a session for which a wait had
\* returned True, and has returned.
FetchedAfterWait ==
    /\ client.op \in {"get_results", "quick_deliberate"}
    /\ client.pc = "returned"
    /\ client.calls # << >> /\ client.calls[Len(client.calls)] = "messages"
    /\ client.session_id \in client.completedSeen

\* C23: a fetch of the messages of a session made after wait_for_completion
\* returned True for it yields the whole transcript, ending with the
\* speaker's synthesis, and the result get_results (and so quick_deliberate)
\* returns has the synthesis text of the session's worker as its content, for
\* every interleaving of the client's requests with the worker's steps.
C23_ResultIsSynthesis ==
    FetchedAfterWait =>
        LET sid == IdOfString(client.session_id) IN
        /\ sid \in DOMAIN sessions
        /\ client.messages = JList(sessions[sid].messages)
        /\ Shape(client.messages.v)
             = ExpectedTranscript(Configured(sessions[sid].councilors))
        /\ client.result # JNull
        /\ \A w \in WorkersOf(sid) :
              /\ threads[w].pc \in {"consensus", "done"}
              /\ client.result.v.content = threads[w].synthesis

\* A quick_deliberate that returned the synthesis while the worker had not
\* yet stored the consensus.
C23_Witness ==
    /\ FetchedAfterWait /\ client.op = "quick_deliberate"
    /\ client.result # JNull
    /\ \E w \in DOMAIN threads :
          /\ threads[w].pc = "consensus"
          /\ client.result.v.content = threads[w].synthesis
          /\ threads[w].synthesis # threads[w].opening

\* A get_results of its own, made after an earlier wait returned True.
C23_WitnessSeparateCalls ==
    /\ FetchedAfterWait /\ client.op = "get_results"
    /\ client.result # JNull
    /\ Len(client.messages.v) = 4

====
